---- MODULE Spec2Model ----
(***************************************************************************)
(* A model of scraper.py: download_and_parse_fide_xml and scrape_ratings.  *)
(*                                                                         *)
(* A Python str is a sequence of one-character strings (<<>> is "").  A    *)
(* token longer than one character stands for a fixed piece of text that   *)
(* the code never looks into.  A Python dict is a function whose DOMAIN is *)
(* its key set.  An optional element (a query_selector / find result) is   *)
(* <<>> when absent and <<e>> when present.                                *)
(***************************************************************************)
EXTENDS Integers, Sequences, FiniteSets, TLC

VARIABLES
    pc,            \* position of scrape_ratings
    feeds,         \* environment: what the federation server answers, [current, prev]
    rows,          \* environment: the .rdt_TableRow fragments of the club page
    profiles,      \* environment: the profile page served for each roster link
    current_fide,  \* scrape_ratings local current_fide
    prev_fide,     \* scrape_ratings local prev_fide
    players,       \* scrape_ratings local players (list of dicts)
    i,             \* 1-based index of the player the enrichment loop is at
    page,          \* the profile page the browser currently shows
    raised         \* per player, the steps that raised while it was processed

vars == <<pc, feeds, rows, profiles, current_fide, prev_fide, players, i, page, raised>>

(***************************************************************************)
(* Bounds of the model.                                                    *)
(***************************************************************************)
MaxLen == 4        \* longest calculation text enumerated
MaxFeed == 2       \* most <player> elements in an enumerated feed
MaxRows == 2       \* most roster rows enumerated
MaxRating == 10    \* ratings 0..MaxRating are enumerated, besides a few large ones

-----------------------------------------------------------------------------
(***************************************************************************)
(* Python text primitives.                                                 *)
(***************************************************************************)
None == <<"None">>                    \* Python None where a str is expected
EmptyDict == [k \in {} |-> {}]         \* {}

Range(s) == {s[k] : k \in DOMAIN s}
MaxOf(S) == CHOOSE m \in S : \A n \in S : n <= m
MinOf(S) == CHOOSE m \in S : \A n \in S : m <= n

AsciiDigits == {"0", "1", "2", "3", "4", "5", "6", "7", "8", "9"}
\* "^2" stands for a character such as U+00B2: str.isdigit() accepts it,
\* int() and the regex class \d do not.
SuperDigits == {"^2"}
Whitespace == {" ", "\n"}

IsSpace(c) == c \in Whitespace          \* str.strip() and regex \s
IsDecimal(c) == c \in AsciiDigits       \* regex \d, and what int() accepts
IsDigitChar(c) == c \in AsciiDigits \cup SuperDigits   \* str.isdigit(), per character

Truthy(s) == s # None /\ s # <<>>       \* `if s:` for an optional str

RECURSIVE lstrip(_)
lstrip(s) == IF s # <<>> /\ IsSpace(Head(s)) THEN lstrip(Tail(s)) ELSE s

RECURSIVE rstrip(_)
rstrip(s) == IF s # <<>> /\ IsSpace(s[Len(s)]) THEN rstrip(SubSeq(s, 1, Len(s) - 1)) ELSE s

strip(s) == rstrip(lstrip(s))

\* text.split("\n")[-1]
LastLine(s) ==
    LET brk == {k \in DOMAIN s : s[k] = "\n"}
    IN  IF brk = {} THEN s ELSE SubSeq(s, MaxOf(brk) + 1, Len(s))

isdigit(s) == s # <<>> /\ \A k \in DOMAIN s : IsDigitChar(s[k])

DigitVal(c) ==
    CASE c = "0" -> 0 [] c = "1" -> 1 [] c = "2" -> 2 [] c = "3" -> 3 [] c = "4" -> 4
      [] c = "5" -> 5 [] c = "6" -> 6 [] c = "7" -> 7 [] c = "8" -> 8 [] c = "9" -> 9

DigitChar(n) ==
    CASE n = 0 -> "0" [] n = 1 -> "1" [] n = 2 -> "2" [] n = 3 -> "3" [] n = 4 -> "4"
      [] n = 5 -> "5" [] n = 6 -> "6" [] n = 7 -> "7" [] n = 8 -> "8" [] n = 9 -> "9"

\* int(s) raises ValueError unless every character is a decimal digit
IntRaises(s) == s = <<>> \/ \E k \in DOMAIN s : ~IsDecimal(s[k])

RECURSIVE IntOf(_)
IntOf(s) == IF s = <<>> THEN 0 ELSE 10 * IntOf(SubSeq(s, 1, Len(s) - 1)) + DigitVal(s[Len(s)])

RECURSIVE StrNat(_)
StrNat(n) == IF n < 10 THEN <<DigitChar(n)>> ELSE StrNat(n \div 10) \o <<DigitChar(n % 10)>>

\* str(n) for an int
StrInt(n) == IF n < 0 THEN <<"-">> \o StrNat(0 - n) ELSE StrNat(n)

-----------------------------------------------------------------------------
(***************************************************************************)
(* The two regular expressions.  A match is <<>> (None) or the tuple of    *)
(* its groups.                                                             *)
(***************************************************************************)

\* `$`: at the end of the string, or just before a final line break
AtEnd(s, k) == k = Len(s) + 1 \/ (k = Len(s) /\ s[k] = "\n")

\* `(\d+)$` tried at position j: the digit run from j that `$` accepts
DigitsToEnd(s, j) ==
    LET ends == {e \in j..Len(s) :
                    /\ \A k \in j..e : IsDecimal(s[k])
                    /\ AtEnd(s, e + 1)}
    IN  IF ends = {} THEN <<>> ELSE <<SubSeq(s, j, MaxOf(ends))>>

\* `([+-])\s?(\d+)$` tried at position p
ChangeMatchAt(s, p) ==
    IF s[p] \notin {"+", "-"} THEN <<>>
    ELSE LET skip == IF p + 1 <= Len(s) /\ IsSpace(s[p + 1])
                     THEN DigitsToEnd(s, p + 2) ELSE <<>>
             tight == DigitsToEnd(s, p + 1)
         IN  IF Len(skip) > 0 THEN <<s[p], skip[1]>>
             ELSE IF Len(tight) > 0 THEN <<s[p], tight[1]>>
             ELSE <<>>

\* re.search(r'([+-])\s?(\d+)$', s): the leftmost position that matches
change_search(s) ==
    LET hits == {p \in DOMAIN s : Len(ChangeMatchAt(s, p)) > 0}
    IN  IF hits = {} THEN <<>> ELSE ChangeMatchAt(s, MinOf(hits))

\* `profile/(\d+)` tried at position p; "profile/" is one token of the URL
ProfileMatchAt(u, p) ==
    IF u[p] # "profile/" \/ p + 1 > Len(u) \/ ~IsDecimal(u[p + 1]) THEN <<>>
    ELSE LET runs == {e \in (p + 1)..Len(u) : \A k \in (p + 1)..e : IsDecimal(u[k])}
         IN  <<SubSeq(u, p + 1, MaxOf(runs))>>

\* re.search(r'profile/(\d+)', fide_url)
profile_search(u) ==
    LET hits == {p \in DOMAIN u : Len(ProfileMatchAt(u, p)) > 0}
    IN  IF hits = {} THEN <<>> ELSE ProfileMatchAt(u, MinOf(hits))

-----------------------------------------------------------------------------
(***************************************************************************)
(* download_and_parse_fide_xml.                                            *)
(*                                                                         *)
(* A response is [status, archive, players]: status is the HTTP status, or *)
(* 0 when requests.get itself raises; archive tells whether the body is a  *)
(* ZIP holding a well-formed XML file; players lists the <player>          *)
(* elements.  A <player> element maps each child tag to <<>> (no such      *)
(* child element) or <<t>>, t the child's .text (None when it has none).   *)
(***************************************************************************)
Tags == {"fideid", "rating", "games", "title", "country", "birthday"}

\* player.find(tag).text raises AttributeError when find returns None
TextRaises(el) == \E t \in Tags : el[t] = <<>>

\* `int(x) if x and x.isdigit() else 0`
IntOrZeroRaises(x) == Truthy(x) /\ isdigit(x) /\ IntRaises(x)
IntOrZero(x) == IF Truthy(x) /\ isdigit(x) THEN IntOf(x) ELSE 0

\* `x if x else ""`
TextOrEmpty(x) == IF Truthy(x) THEN x ELSE <<>>

\* the dict literal of lines 60-66
FideRecord(el) ==
    [rating   |-> IntOrZero(el.rating[1]),
     games    |-> IntOrZero(el.games[1]),
     title    |-> TextOrEmpty(el.title[1]),
     country  |-> TextOrEmpty(el.country[1]),
     birthday |-> TextOrEmpty(el.birthday[1])]

\* one pass of the loop body, lines 52-66: does it raise
PlayerRaises(el) ==
    \/ TextRaises(el)
    \/ /\ Truthy(el.fideid[1])
       /\ IntOrZeroRaises(el.rating[1]) \/ IntOrZeroRaises(el.games[1])

\* one pass of the loop body that does not raise: fide_data afterwards
StorePlayer(fide_data, el) ==
    IF Truthy(el.fideid[1])
    THEN (el.fideid[1] :> FideRecord(el)) @@ fide_data
    ELSE fide_data

\* `for player in root.findall('player')`: [ok, data]; ok is FALSE when a
\* pass raised
RECURSIVE ParsePlayers(_, _)
ParsePlayers(els, fide_data) ==
    IF els = <<>> THEN [ok |-> TRUE, data |-> fide_data]
    ELSE IF PlayerRaises(Head(els)) THEN [ok |-> FALSE, data |-> fide_data]
    ELSE ParsePlayers(Tail(els), StorePlayer(fide_data, Head(els)))

download_and_parse_fide_xml(resp) ==
    IF resp.status = 0 THEN EmptyDict                  \* requests.get raised
    ELSE IF resp.status # 200 THEN EmptyDict           \* lines 38-40
    ELSE IF resp.archive # "xml" THEN EmptyDict        \* ZipFile / [0] / ET.parse raised
    ELSE LET r == ParsePlayers(resp.players, EmptyDict)
         IN  IF r.ok THEN r.data ELSE EmptyDict        \* lines 71-73

-----------------------------------------------------------------------------
(***************************************************************************)
(* Roster extraction, lines 117-153.  A row maps each slot to <<>> (the    *)
(* selector found nothing) or <<e>>; the name element is [text, href], the *)
(* others are their inner text.                                            *)
(***************************************************************************)
Site == <<"https://ratingviewer.nl">>

\* what an f-string prints for a str or None
Fmt(x) == IF x = None THEN <<"N", "o", "n", "e">> ELSE x

SlotText(slot) == IF slot # <<>> THEN strip(slot[1]) ELSE <<>>

HasNameAndRating(row) == row.name_el # <<>> /\ row.rating_el # <<>>

\* the dict appended at lines 141-153
BaseRecord(row) ==
    [name              |-> row.name_el[1].text,
     profile_url       |-> Site \o Fmt(row.name_el[1].href),
     current_rating    |-> strip(row.rating_el[1]),
     rating_change     |-> <<"0">>,
     games_played      |-> <<"0">>,
     title             |-> SlotText(row.title_el),
     country           |-> SlotText(row.fed_el),
     birthday          |-> SlotText(row.yob_el),
     gender            |-> SlotText(row.sex_el),
     _full_profile_url |-> Site \o Fmt(row.name_el[1].href)]

\* ExtractPlayers with players.insert(0, ...) for players.append(...)
RECURSIVE ExtractPlayers_Prepend(_, _)
ExtractPlayers_Prepend(rs, acc) ==
    IF rs = <<>> THEN acc
    ELSE ExtractPlayers_Prepend(Tail(rs),
            IF HasNameAndRating(Head(rs)) THEN <<BaseRecord(Head(rs))>> \o acc ELSE acc)

\* `for row in rows: if name_el and rating_el: players.append(...)`
RECURSIVE ExtractPlayers(_, _)
ExtractPlayers(rs, acc) ==
    IF rs = <<>> THEN acc
    ELSE ExtractPlayers(Tail(rs),
            IF HasNameAndRating(Head(rs)) THEN Append(acc, BaseRecord(Head(rs))) ELSE acc)

-----------------------------------------------------------------------------
(***************************************************************************)
(* Per-player enrichment, lines 158-247.  A profile page is                *)
(* [table, games, calc, link]: whether any <table> shows up before the     *)
(* timeout, the inner text of the '#Gespeeld' cell and of the 'Berekening' *)
(* cell, and the href of the federation profile link, each <<>> when the   *)
(* selector finds nothing.                                                 *)
(***************************************************************************)
SetKey(d, k, v) == (k :> v) @@ d                       \* d[k] = v
DelKey(d, k) == [x \in DOMAIN d \ {k} |-> d[x]]        \* del d[k]
Has(d, k) == k \in DOMAIN d                            \* k in d

\* lines 174-175
ParseGames(player, text) ==
    IF "\n" \in Range(text)
    THEN [player EXCEPT !["games_played"] = strip(LastLine(text))]
    ELSE player

\* ParseChange with the sign of a positive change kept ("+10" stored, not "10")
ParseChange_KeepPlus(player, text) ==
    LET change_match == change_search(strip(text))
    IN  IF Len(change_match) > 0
        THEN [player EXCEPT !["rating_change"] = <<change_match[1]>> \o change_match[2]]
        ELSE player

\* lines 186-200
ParseChange(player, text) ==
    LET change_match == change_search(strip(text))
    IN  IF Len(change_match) > 0
        THEN IF change_match[1] = "+"
             THEN [player EXCEPT !["rating_change"] = change_match[2]]
             ELSE [player EXCEPT !["rating_change"] = <<"-">> \o change_match[2]]
        ELSE player

\* lines 170-175
GamesStep(player, pg) ==
    IF pg.games # <<>> THEN ParseGames(player, pg.games[1]) ELSE player

\* lines 179-200
CalcStep(player, pg) ==
    IF pg.calc # <<>> THEN ParseChange(player, pg.calc[1]) ELSE player

\* The inner try block, lines 164-200, when a step of it raises: `fail` is
\* "games" for one of lines 166-172 (wait_for_selector, or reading the games
\* cell), "calc" for one of lines 179-181, "ok" for none.  A page showing no
\* table makes wait_for_selector time out.
KnsbRaises(pg, fail) == fail # "ok" \/ ~pg.table
KnsbPlayer(player, pg, fail) ==
    IF ~pg.table \/ fail = "games" THEN player
    ELSE IF fail = "calc" THEN GamesStep(player, pg)
    ELSE CalcStep(GamesStep(player, pg), pg)

\* FormatChange with `>=` for `>`: a zero change comes out as "+0"
FormatChange_PlusZero(change) ==
    IF change >= 0 THEN <<"+">> \o StrInt(change) ELSE StrInt(change)

\* line 228
FormatChange(change) ==
    IF change > 0 THEN <<"+">> \o StrInt(change) ELSE StrInt(change)

\* FideChange with the `else` attached to the inner `if`: a previous rating
\* of 0 is recorded as "0", an identifier without history as nothing
FideChange_ZeroOnUnrated(player, fide_id, curr_rec, prev) ==
    IF Has(prev, fide_id)
    THEN IF prev[fide_id].rating > 0
         THEN SetKey(player, "fide_change", FormatChange(curr_rec.rating - prev[fide_id].rating))
         ELSE SetKey(player, "fide_change", <<"0">>)
    ELSE player

\* lines 222-230
FideChange(player, fide_id, curr_rec, prev) ==
    IF Has(prev, fide_id)
    THEN IF prev[fide_id].rating > 0
         THEN SetKey(player, "fide_change", FormatChange(curr_rec.rating - prev[fide_id].rating))
         ELSE player
    ELSE SetKey(player, "fide_change", <<"0">>)

\* Backfill without the `not player[f]` test: the federation value overwrites
Backfill_Overwrite(player, curr_rec, f) ==
    IF curr_rec[f] # <<>>
    THEN [player EXCEPT ![f] = curr_rec[f]]
    ELSE player

\* one of the three `if not player[f] and curr_rec[f]` of lines 234-239
Backfill(player, curr_rec, f) ==
    IF player[f] = <<>> /\ curr_rec[f] # <<>>
    THEN [player EXCEPT ![f] = curr_rec[f]]
    ELSE player

\* MatchFide with fide_games taken from curr_rec["rating"]
MatchFide_GamesFromRating(player, fide_id, curr, prev) ==
    LET curr_rec == curr[fide_id]
        p1 == SetKey(player, "fide_rating", StrInt(curr_rec.rating))
        p2 == SetKey(p1, "fide_games", StrInt(curr_rec.rating))
        p3 == FideChange(p2, fide_id, curr_rec, prev)
        p4 == Backfill(p3, curr_rec, "title")
        p5 == Backfill(p4, curr_rec, "country")
    IN  Backfill(p5, curr_rec, "birthday")

\* lines 217-239
MatchFide(player, fide_id, curr, prev) ==
    LET curr_rec == curr[fide_id]
        p1 == SetKey(player, "fide_rating", StrInt(curr_rec.rating))
        p2 == SetKey(p1, "fide_games", StrInt(curr_rec.games))
        p3 == FideChange(p2, fide_id, curr_rec, prev)
        p4 == Backfill(p3, curr_rec, "title")
        p5 == Backfill(p4, curr_rec, "country")
    IN  Backfill(p5, curr_rec, "birthday")

\* lines 206-212: the identifier taken from the profile link, <<>> if none
ExtractFideId(pg) ==
    IF pg.link = <<>> THEN <<>> ELSE profile_search(pg.link[1])

\* lines 213-239: the player dict once the link has been read
FidePlayer(player, pg, curr, prev) ==
    LET match == ExtractFideId(pg)
    IN  IF Len(match) = 0 THEN player
        ELSE LET withId == SetKey(player, "fide_id", match[1])
             IN  IF Has(curr, match[1])
                 THEN MatchFide(withId, match[1], curr, prev)
                 ELSE withId

\* line 241 evaluates player['fide_change']: KeyError when it was never set
LogKeyError(player, pg, curr) ==
    LET match == ExtractFideId(pg)
    IN  /\ Len(match) > 0
        /\ Has(curr, match[1])
        /\ ~Has(player, "fide_change")

\* does lines 241-244 print at all
LogsMatch(pg) == Len(ExtractFideId(pg)) > 0

-----------------------------------------------------------------------------
(***************************************************************************)
(* The environments enumerated.                                            *)
(***************************************************************************)
Txt(t) == <<t>>                           \* an element present, with text t
Absent == <<>>

\* <player> elements
Elem(id, r, g, t, c, b) ==
    [fideid |-> id, rating |-> r, games |-> g, title |-> t, country |-> c, birthday |-> b]

Feed(status, archive, els) == [status |-> status, archive |-> archive, players |-> els]
Unavailable == Feed(404, "none", <<>>)

IM == <<"I", "M">>
NED == <<"N", "E", "D">>
Y1990 == <<"1", "9", "9", "0">>

\* feeds of the whole-run specification
ListedFull == Elem(Txt(<<"7">>), Txt(<<"1", "0">>), Txt(<<"3">>), Txt(IM), Txt(NED), Txt(Y1990))
ListedBare == Elem(Txt(<<"7">>), Txt(<<"9">>), Txt(None), Txt(None), Txt(None), Txt(None))
Other == Elem(Txt(<<"8">>), Txt(<<"1", "2">>), Txt(<<"1">>), Txt(None), Txt(NED), Txt(None))
Earlier(r) ==
    Elem(Txt(<<"7">>), Txt(r), Txt(<<"2">>), Txt(<<"G", "M">>), Txt(<<"U", "S", "A">>), Txt(<<"1", "9", "8", "0">>))

MainCurrent ==
    {Feed(200, "xml", <<ListedFull, Other>>), Feed(200, "xml", <<ListedBare>>)}
MainPrev ==
    {Unavailable, Feed(200, "xml", <<Other, Earlier(<<"9">>)>>),
     Feed(200, "xml", <<Earlier(<<"0">>)>>)}

\* profile pages
Page(table, games, calc, link) == [table |-> table, games |-> games, calc |-> calc, link |-> link]
ClubPage == Page(FALSE, Absent, Absent, Absent)
FideUrl(rest) == <<"https://ratings.fide.com/", "profile/">> \o rest

P1 == Site \o <<"/", "1">>
P2 == Site \o <<"/", "2">>
P3 == Site \o <<"/", "3">>

\* the profile pages of the whole-run specification
MainSite ==
      (P1 :> Page(TRUE, Txt(<<"#", "\n", "5">>), Txt(<<"B", "\n", "=", "+", " ", "1", "0">>),
                  Txt(FideUrl(<<"7">>))))
   @@ (P2 :> Page(TRUE, Txt(<<"#", "5">>), Txt(<<"B", "\n", "9", "=">>),
                  Txt(FideUrl(<<"9", "/", "x">>))))
   @@ (P3 :> Page(FALSE, Absent, Absent, Txt(FideUrl(<<"x">>))))

\* roster rows
NameEl(t, href) == <<[text |-> t, href |-> href]>>
Row(n, r, t, f, y, s) ==
    [name_el |-> n, rating_el |-> r, title_el |-> t, fed_el |-> f, yob_el |-> y, sex_el |-> s]

MainRows ==
    {Row(NameEl(<<"A">>, <<"/", h>>), Txt(<<" ", "1", "5">>), Txt(<<"F", "M">>),
         Txt(<<"B", "E", "L">>), Txt(<<"2", "0", "0", "1">>), Txt(<<"M">>)) : h \in {"1", "2"}}
  \cup
    {Row(NameEl(<<"B">>, <<"/", "3">>), Txt(<<"9">>), Txt(<<" ">>), Absent, Absent, Absent)}
  \cup
    {Row(Absent, Txt(<<"9">>), Absent, Absent, Absent, Absent)}

RECURSIVE SeqsUpTo(_, _)
SeqsUpTo(S, n) ==
    IF n = 0 THEN {<<>>}
    ELSE LET shorter == SeqsUpTo(S, n - 1)
         IN  shorter \cup {Append(q, x) : q \in shorter, x \in S}

\* a local that has not been assigned yet
Unbound == [k \in {<<"unbound">>} |-> {}]

-----------------------------------------------------------------------------
(***************************************************************************)
(* scrape_ratings, one action per stretch of straight-line code.           *)
(***************************************************************************)
Init ==
    /\ pc = "fide_current"
    /\ feeds \in [current : MainCurrent, prev : MainPrev]
    /\ rows \in SeqsUpTo(MainRows, MaxRows)
    /\ profiles = MainSite
    /\ current_fide = Unbound
    /\ prev_fide = Unbound
    /\ players = <<>>
    /\ i = 1
    /\ page = ClubPage
    /\ raised = <<>>

Raise(label) == raised' = [raised EXCEPT ![i] = @ \cup {label}]

\* line 78
DownloadCurrent ==
    /\ pc = "fide_current"
    /\ current_fide' = download_and_parse_fide_xml(feeds.current)
    /\ pc' = "fide_prev"
    /\ UNCHANGED <<feeds, rows, profiles, prev_fide, players, i, page, raised>>

\* lines 80-81
DownloadPrev ==
    /\ pc = "fide_prev"
    /\ prev_fide' = download_and_parse_fide_xml(feeds.prev)
    /\ pc' = "club"
    /\ UNCHANGED <<feeds, rows, profiles, current_fide, players, i, page, raised>>

\* lines 85-155; the club page failing to load ends the run
ExtractRoster ==
    /\ pc = "club"
    /\ \E fail \in {"ok", "club"} :
          IF fail = "club"
          THEN /\ pc' = "crashed"
               /\ UNCHANGED <<players, raised>>
          ELSE LET ps == ExtractPlayers(rows, <<>>)
               IN  /\ players' = ps
                   /\ raised' = [k \in DOMAIN ps |-> {}]
                   /\ pc' = "for"
    /\ UNCHANGED <<feeds, rows, profiles, current_fide, prev_fide, i, page>>

\* line 158, the roster exhausted
LoopExit ==
    /\ pc = "for"
    /\ i > Len(players)
    /\ pc' = "cleanup"
    /\ UNCHANGED <<feeds, rows, profiles, current_fide, prev_fide, players, i, page, raised>>

\* lines 158-161: the progress line, printed outside the try, then goto
VisitPlayer ==
    /\ pc = "for"
    /\ i <= Len(players)
    /\ \E fail \in {"ok", "log_progress", "goto"} :
          IF fail = "log_progress"
          THEN /\ pc' = "crashed"
               /\ Raise(fail)
               /\ UNCHANGED page
          ELSE IF fail = "goto"
          THEN /\ pc' = "except"
               /\ Raise(fail)
               /\ UNCHANGED page
          ELSE /\ pc' = "knsb"
               /\ page' = profiles[players[i]["_full_profile_url"]]
               /\ UNCHANGED raised
    /\ UNCHANGED <<feeds, rows, profiles, current_fide, prev_fide, players, i>>

\* KnsbStats with every list entry being one shared dict: what is parsed
\* for one player shows in all
KnsbStats_Aliased ==
    /\ pc = "knsb"
    /\ \E fail \in {"ok", "games", "calc"}, log \in {"ok", "log_knsb"} :
          /\ players' = [k \in DOMAIN players |->
                            [players[k] EXCEPT
                               !["games_played"] = KnsbPlayer(players[i], page, fail)["games_played"],
                               !["rating_change"] = KnsbPlayer(players[i], page, fail)["rating_change"]]]
          /\ IF KnsbRaises(page, fail)
             THEN /\ raised' = [raised EXCEPT ![i] =
                        @ \cup {IF page.table THEN fail ELSE "games"}
                          \cup (IF log = "ok" THEN {} ELSE {log})]
                  /\ pc' = IF log = "ok" THEN "fide" ELSE "except"
             ELSE /\ log = "ok"
                  /\ pc' = "fide"
                  /\ UNCHANGED raised
    /\ UNCHANGED <<feeds, rows, profiles, current_fide, prev_fide, i, page>>

\* lines 164-203: the inner try and its handler
KnsbStats ==
    /\ pc = "knsb"
    /\ \E fail \in {"ok", "games", "calc"}, log \in {"ok", "log_knsb"} :
          /\ players' = [players EXCEPT ![i] = KnsbPlayer(@, page, fail)]
          /\ IF KnsbRaises(page, fail)
             THEN /\ raised' = [raised EXCEPT ![i] =
                        @ \cup {IF page.table THEN fail ELSE "games"}
                          \cup (IF log = "ok" THEN {} ELSE {log})]
                  /\ pc' = IF log = "ok" THEN "fide" ELSE "except"
             ELSE /\ log = "ok"
                  /\ pc' = "fide"
                  /\ UNCHANGED raised
    /\ UNCHANGED <<feeds, rows, profiles, current_fide, prev_fide, i, page>>

\* lines 205-244; "link" is query_selector or get_attribute raising (lines
\* 206-208), "log_match" a print of lines 241-244 raising
FideMatch ==
    /\ pc = "fide"
    /\ \E fail \in {"ok", "link", "log_match"} :
          /\ fail = "log_match" => LogsMatch(page)
          /\ IF fail = "link"
             THEN /\ pc' = "except"
                  /\ Raise(fail)
                  /\ UNCHANGED <<players, i>>
             ELSE LET player == FidePlayer(players[i], page, current_fide, prev_fide)
                  IN  /\ players' = [players EXCEPT ![i] = player]
                      /\ IF LogKeyError(player, page, current_fide)
                         THEN pc' = "except" /\ Raise("KeyError") /\ UNCHANGED i
                         ELSE IF fail = "log_match"
                         THEN pc' = "except" /\ Raise(fail) /\ UNCHANGED i
                         ELSE pc' = "for" /\ i' = i + 1 /\ UNCHANGED raised
    /\ UNCHANGED <<feeds, rows, profiles, current_fide, prev_fide, page>>

\* lines 246-247: the handler prints; a print that raises leaves scrape_ratings
Except ==
    /\ pc = "except"
    /\ \E fail \in {"ok", "log_except"} :
          IF fail = "ok"
          THEN pc' = "for" /\ i' = i + 1 /\ UNCHANGED raised
          ELSE pc' = "crashed" /\ Raise(fail) /\ UNCHANGED i
    /\ UNCHANGED <<feeds, rows, profiles, current_fide, prev_fide, players, page>>

\* lines 250-259: the internal field removed, the list written out
Save ==
    /\ pc = "cleanup"
    /\ players' = [k \in DOMAIN players |-> DelKey(players[k], "_full_profile_url")]
    /\ pc' = "done"
    /\ UNCHANGED <<feeds, rows, profiles, current_fide, prev_fide, i, page, raised>>

NextLoop == LoopExit \/ VisitPlayer \/ KnsbStats \/ FideMatch \/ Except \/ Save

Next == DownloadCurrent \/ DownloadPrev \/ ExtractRoster \/ NextLoop

Spec == Init /\ [][Next]_vars

-----------------------------------------------------------------------------
(***************************************************************************)
(* The parts of the program on their own, each started in a state the      *)
(* program is in when it gets there, over a wider range of inputs.         *)
(***************************************************************************)
FM == <<"F", "M">>
BEL == <<"B", "E", "L">>
Y2001 == <<"2", "0", "0", "1">>

\* --- the federation feed parser over every feed of up to MaxFeed elements
IdTexts == {Absent, Txt(None), Txt(<<"7">>), Txt(<<"8">>)}
NumTexts == {Absent, Txt(None), Txt(<<"9">>), Txt(<<"1", "0">>), Txt(<<"0", "7">>),
             Txt(<<"x">>), Txt(<<"-", "1">>), Txt(<<"^2">>)}
WordTexts(w) == {Absent, Txt(None), Txt(w)}

AllElems ==
    {Elem(id, r, g, t, c, b) :
        id \in IdTexts, r \in NumTexts, g \in {Absent, Txt(None), Txt(<<"3">>), Txt(<<"x">>)},
        t \in WordTexts(IM), c \in WordTexts(NED), b \in WordTexts(Y1990)}

\* how many child tags differ from those of ListedFull
Distance(el) == Cardinality({t \in Tags : el[t] # ListedFull[t]})

\* ListedFull with one child tag changed, or with the identifier and one other
FeedElems ==
    {el \in AllElems :
        Distance(el) <= 1 \/ (Distance(el) = 2 /\ el.fideid # ListedFull.fideid)}

FeedUniverse ==
    {Feed(200, "xml", els) : els \in SeqsUpTo(FeedElems, MaxFeed)}
    \cup {Unavailable, Feed(0, "none", <<>>), Feed(200, "badzip", <<>>),
          Feed(200, "noxml", <<>>), Feed(200, "badxml", <<>>)}

InitFeed ==
    /\ pc = "fide_current"
    /\ feeds \in [current : FeedUniverse, prev : {Unavailable, Feed(200, "xml", <<Other>>)}]
    /\ rows = <<>>
    /\ profiles = MainSite
    /\ current_fide = Unbound
    /\ prev_fide = Unbound
    /\ players = <<>>
    /\ i = 1
    /\ page = ClubPage
    /\ raised = <<>>

NextFeed == DownloadCurrent \/ DownloadPrev

SpecFeed == InitFeed /\ [][NextFeed]_vars

\* --- roster extraction over every sequence of up to MaxRows rows
RosterRows ==
    {Row(n, r, y[1], f, y[2], y[3]) :
        n \in {Absent, NameEl(<<"A">>, <<"/", "1">>), NameEl(<<"B", " ">>, None)},
        r \in {Absent, Txt(<<" ", "1", "5">>)},
        f \in {Absent, Txt(<<" ">>), Txt(BEL)},
        y \in {<<Absent, Absent, Absent>>, <<Txt(FM), Absent, Txt(<<"M", " ">>)>>,
                <<Absent, Txt(Y2001), Absent>>}}

InitRoster ==
    /\ pc = "club"
    /\ feeds = [current |-> Feed(200, "xml", <<ListedFull>>), prev |-> Unavailable]
    /\ rows \in SeqsUpTo(RosterRows, MaxRows)
    /\ profiles = MainSite
    /\ current_fide = download_and_parse_fide_xml(feeds.current)
    /\ prev_fide = download_and_parse_fide_xml(feeds.prev)
    /\ players = <<>>
    /\ i = 1
    /\ page = ClubPage
    /\ raised = <<>>

NextRoster == ExtractRoster

SpecRoster == InitRoster /\ [][NextRoster]_vars

\* --- the enrichment of one player, over every calculation text of up to
\* MaxLen characters; "B" is the label 'Berekening' the selector asks for
CalcAlphabet == {"0", "1", "+", "-", "=", " ", "\n", "B"}
CalcTexts == {t \in SeqsUpTo(CalcAlphabet, MaxLen) : "B" \in Range(t)}

OneRow == Row(NameEl(<<"A">>, <<"/", "1">>), Txt(<<"1", "5">>), Absent, Absent, Absent, Absent)

InitParse ==
    /\ pc = "for"
    /\ feeds = [current |-> Unavailable, prev |-> Unavailable]
    /\ rows = <<OneRow>>
    /\ profiles \in {P1 :> Page(TRUE, Txt(<<"#", "\n", "5">>), Txt(t), Absent) : t \in CalcTexts}
    /\ current_fide = download_and_parse_fide_xml(feeds.current)
    /\ prev_fide = download_and_parse_fide_xml(feeds.prev)
    /\ players = ExtractPlayers(rows, <<>>)
    /\ i = 1
    /\ page = ClubPage
    /\ raised = [k \in DOMAIN players |-> {}]

SpecParse == InitParse /\ [][NextLoop]_vars

\* --- the enrichment of one player, over roster values, federation records
\* of both periods and profile links
Ratings == 0..MaxRating \cup {1980, 2000}

MatchRows ==
    {Row(NameEl(<<"A">>, <<"/", "1">>), Txt(<<"1", "5">>), t, y[1], y[2], y[3]) :
        t \in {Absent, Txt(<<" ">>), Txt(FM)},
        y \in {<<Absent, Absent, Absent>>, <<Txt(BEL), Txt(Y2001), Txt(<<"M">>)>>}}

MatchCurrent ==
    {Unavailable} \cup
    {Feed(200, "xml", <<Elem(Txt(<<"7">>), Txt(StrInt(r)), Txt(<<"3">>), t, c, b)>>) :
        r \in Ratings, t \in {Txt(None), Txt(IM)}, c \in {Txt(None), Txt(NED)},
        b \in {Txt(None), Txt(Y1990)}}

MatchPrev ==
    {Unavailable} \cup {Feed(200, "xml", <<Earlier(StrInt(r))>>) : r \in Ratings}

MatchLinks == {Absent, Txt(FideUrl(<<"x">>)), Txt(FideUrl(<<"7">>)), Txt(FideUrl(<<"8", "/">>))}

InitMatch ==
    /\ pc = "for"
    /\ feeds \in [current : MatchCurrent, prev : MatchPrev]
    /\ rows \in {<<r>> : r \in MatchRows}
    /\ profiles \in {P1 :> Page(TRUE, Txt(<<"#", "\n", "5">>), Txt(<<"B", "=", "-", "5">>), l)
                        : l \in MatchLinks}
    /\ current_fide = download_and_parse_fide_xml(feeds.current)
    /\ prev_fide = download_and_parse_fide_xml(feeds.prev)
    /\ players = ExtractPlayers(rows, <<>>)
    /\ i = 1
    /\ page = ClubPage
    /\ raised = [k \in DOMAIN players |-> {}]

SpecMatch == InitMatch /\ [][NextLoop]_vars

-----------------------------------------------------------------------------
(***************************************************************************)
(* What the properties below speak of.                                     *)
(***************************************************************************)
Emitted == pc = "done"

\* the roster entries the run started from, in roster order
Roster == ExtractPlayers(rows, <<>>)

\* the profile page served for the j-th player
PageOf(j) == profiles[Roster[j]["_full_profile_url"]]

\* the identifier in the j-th player's profile link, <<>> if there is none
LinkId(j) == ExtractFideId(PageOf(j))

\* the run got as far as reading the j-th player's profile link
ReadLink(j) == raised[j] \cap {"goto", "log_knsb", "link"} = {}

Extracted(j) == ReadLink(j) /\ Len(LinkId(j)) > 0
Found(j) == Extracted(j) /\ Has(current_fide, LinkId(j)[1])

FederationFields == {"fide_rating", "fide_games", "fide_change"}

\* s is the decimal string of the natural number n
IsDecimalOf(s, n) ==
    /\ s # <<>>
    /\ \A k \in DOMAIN s : s[k] \in AsciiDigits
    /\ Len(s) > 1 => s[1] # "0"
    /\ IntOf(s) = n

C2_ChangeOnlyWithPositiveHistory ==
    Emitted =>
        \A j \in DOMAIN players :
            Has(players[j], "fide_change") =>
                /\ Found(j)
                /\ Has(prev_fide, LinkId(j)[1])
                /\ prev_fide[LinkId(j)[1]].rating > 0

\* C2 amended: fide_change is populated only if the identifier is in the
\* current snapshot and either in the previous snapshot with a rating above
\* zero or not in the previous snapshot at all, where it is "0".
C2_ChangeOnlyWithHistoryOrNone ==
    Emitted =>
        \A j \in DOMAIN players :
            Has(players[j], "fide_change") =>
                /\ Found(j)
                /\ \/ /\ Has(prev_fide, LinkId(j)[1])
                      /\ prev_fide[LinkId(j)[1]].rating > 0
                   \/ /\ ~Has(prev_fide, LinkId(j)[1])
                      /\ players[j]["fide_change"] = <<"0">>

\* C2's case: a record with fide_change whose identifier has no previous record
C2_Witness ==
    /\ Emitted
    /\ \E j \in DOMAIN players :
          /\ Has(players[j], "fide_change")
          /\ Found(j)
          /\ ~Has(prev_fide, LinkId(j)[1])

\* C3: a player found in the current snapshot whose identifier is not in the
\* previous snapshot, or is there with rating 0, is emitted with fide_change "0".
C3_NoHistoryIsZero ==
    Emitted =>
        \A j \in DOMAIN players :
            (/\ Found(j)
             /\ \/ ~Has(prev_fide, LinkId(j)[1])
                \/ prev_fide[LinkId(j)[1]].rating = 0)
            => /\ Has(players[j], "fide_change")
               /\ players[j]["fide_change"] = <<"0">>

EmittedAsPopulated ==
    /\ Len(players) = Len(Roster)
    /\ \A j \in DOMAIN players :
          LET p == players[j]
              b == Roster[j]
          IN  /\ p["name"] = b["name"]
              /\ p["profile_url"] = b["profile_url"]
              /\ p["current_rating"] = b["current_rating"]
              /\ "goto" \in raised[j] => p = DelKey(b, "_full_profile_url")
              /\ "games" \in raised[j] =>
                    p["games_played"] = <<"0">> /\ p["rating_change"] = <<"0">>
              /\ "calc" \in raised[j] => p["rating_change"] = <<"0">>
              /\ ~ReadLink(j) =>
                    /\ DOMAIN p \cap (FederationFields \cup {"fide_id"}) = {}
                    /\ \A f \in {"title", "country", "birthday", "gender"} : p[f] = b[f]

\* C6: whichever per-player steps raise (page fetch, stats parsing, link
\* extraction, matching, logging), no player's failure ends the run, and the
\* run emits one record per roster entry, in roster order, each with what was
\* populated before its failure.
C6_EveryPlayerEmitted ==
    /\ pc = "crashed" => \A j \in DOMAIN raised : raised[j] = {}
    /\ Emitted => EmittedAsPopulated

\* --- C7, on the feed parser
\* the text of a child tag, "" when the tag is absent or has no text
TagText(el, t) == IF el[t] = <<>> \/ el[t][1] = None THEN <<>> ELSE el[t][1]

\* the non-negative integer a text spells, 0 when it spells none
NumberOrZero(s) ==
    IF s # <<>> /\ \A k \in DOMAIN s : s[k] \in AsciiDigits THEN IntOf(s) ELSE 0

\* the last element of the feed that carries identifier id
LastWith(els, id) == els[MaxOf({k \in DOMAIN els : TagText(els[k], "fideid") = id})]

\* C7: for a feed in which any field may be absent or empty, the snapshot
\* holds exactly the records whose identifier is non-empty, the last one per
\* identifier, with rating and games the parsed non-negative integer or 0 and
\* title, country and birthday "" when absent.
C7_SnapshotOfFeed ==
    (pc # "fide_current" /\ feeds.current.status = 200 /\ feeds.current.archive = "xml") =>
        LET els == feeds.current.players
        IN  /\ DOMAIN current_fide =
                  {TagText(els[k], "fideid") : k \in DOMAIN els} \ {<<>>}
            /\ \A id \in DOMAIN current_fide :
                  current_fide[id] =
                     [rating   |-> NumberOrZero(TagText(LastWith(els, id), "rating")),
                      games    |-> NumberOrZero(TagText(LastWith(els, id), "games")),
                      title    |-> TagText(LastWith(els, id), "title"),
                      country  |-> TagText(LastWith(els, id), "country"),
                      birthday |-> TagText(LastWith(els, id), "birthday")]

\* --- C8, on the calculation text
\* the <<sign, digits>> such that t, trailing whitespace dropped, ends with
\* the sign, one of the gaps, and the digits
SignedSuffixes(t, gaps) ==
    {<<t[q], SubSeq(t, e - n + 1, e)>> :
        <<q, n, e>> \in
            {x \in (DOMAIN t) \X (DOMAIN t) \X (DOMAIN t) :
                /\ t[x[1]] \in {"+", "-"}
                /\ x[1] < x[3] - x[2] + 1
                /\ \A k \in (x[3] + 1)..Len(t) : t[k] \in Whitespace
                /\ \A k \in (x[3] - x[2] + 1)..x[3] : t[k] \in AsciiDigits
                /\ SubSeq(t, x[1] + 1, x[3] - x[2]) \in gaps}}

\* the calculation cell of the j-th player was read
ReadCalc(j) == raised[j] \cap {"goto", "games", "calc"} = {} /\ PageOf(j).table

CalcText(j) == PageOf(j).calc[1]

ChangeFollows(gaps) ==
    Emitted =>
        \A j \in DOMAIN players :
            (ReadCalc(j) /\ PageOf(j).calc # <<>>) =>
                LET found == SignedSuffixes(CalcText(j), gaps)
                    rc == players[j]["rating_change"]
                IN  IF found # {}
                    THEN \E m \in found :
                            rc = IF m[1] = "+" THEN m[2] ELSE <<"-">> \o m[2]
                    ELSE rc = <<"0">>

\* C8 as stated: the gap between sign and digits is nothing or one space.
C8_SignSpaceDigits == ChangeFollows({<<>>, <<" ">>})

\* C8 amended: the gap is nothing or one whitespace character, a space or a
\* line break.
C8_SignWhitespaceDigits == ChangeFollows({<<>>} \cup {<<w>> : w \in Whitespace})

\* C8's case: a line break between the sign and the digits
C8_Witness ==
    /\ Emitted
    /\ \E j \in DOMAIN players :
          /\ ReadCalc(j)
          /\ CalcText(j) = <<"B", "+", "\n", "1">>
          /\ players[j]["rating_change"] = <<"1">>

\* --- C9, on the roster
Kept == {k \in DOMAIN rows : rows[k].name_el # <<>> /\ rows[k].rating_el # <<>>}

\* the row behind the j-th record: the kept row with j - 1 kept rows before it
RowOf(j) == rows[CHOOSE k \in Kept : Cardinality({h \in Kept : h < k}) = j - 1]

\* C9: the base records are one per row that has both name and rating, in
\* the rows' order; each starts with rating_change and games_played "0" and
\* has title, country, birthday, gender "" when the slot is absent.
C9_BaseRecords ==
    pc = "for" =>
        /\ Len(players) = Cardinality(Kept)
        /\ \A j \in DOMAIN players :
              /\ players[j]["name"] = RowOf(j).name_el[1].text
              /\ players[j]["rating_change"] = <<"0">>
              /\ players[j]["games_played"] = <<"0">>
              /\ RowOf(j).title_el = <<>> => players[j]["title"] = <<>>
              /\ RowOf(j).fed_el = <<>> => players[j]["country"] = <<>>
              /\ RowOf(j).yob_el = <<>> => players[j]["birthday"] = <<>>
              /\ RowOf(j).sex_el = <<>> => players[j]["gender"] = <<>>

\* C9's case: two rows, the first without a rating, the second kept with no
\* optional slot
C9_Witness ==
    /\ pc = "for"
    /\ Len(rows) = 2
    /\ rows[1].rating_el = <<>>
    /\ rows[1].name_el # <<>>
    /\ Len(players) = 1
    /\ players[1]["title"] = <<>>
    /\ players[1]["gender"] = <<>>

\* --- C10
Enriching == pc \in {"for", "knsb", "fide", "except"}

====
